---- MODULE Spec2Model ----
(***************************************************************************)
(* Model of finetune/custom.py: the LoRA fine-tuning script.               *)
(*                                                                         *)
(*   Spec        one process: module load, setup(), main(), train() loop   *)
(*   LiveSpec    Spec with weak fairness of the process's next step        *)
(*   SpecBatch   get_batch() and get_longest_seq_length() on small data    *)
(*   SpecWorkers several ranks running train() with the collectives        *)
(*                                                                         *)
(* Library calls (torch, lightning, wandb) are taken to return normally;   *)
(* the module-level constants are drawn from small positive ranges.        *)
(* The learning rate 3e-4 is kept in units of 1e-4, and a rate is the      *)
(* exact fraction num/den times a cosine factor named by its epoch.        *)
(***************************************************************************)
EXTENDS Integers, Sequences, FiniteSets, TLC

VARIABLES
    \* module-level configuration (custom.py:51-66)
    devices, micro_batch_size, max_iters, warmup_steps,
    eval_interval, save_interval, batch_size, gradient_accumulation_iters,
    \* control of the single process
    pc, error,
    \* setup()
    quantize, precision, fabric,
    \* main()
    optimizer, T_max, last_epoch, lr, saved,
    \* train()
    iter_num, step_count, is_accumulating, trace,
    \* get_batch()
    data, longest_seq_length, longest_seq_ix, ix, batch_x, batch_y,
    \* ranks of a distributed run
    w_pc, w_iter_num, w_step_count, w_is_accumulating, w_arrived,
    w_val_iters, w_save_iters

cfgVars == <<devices, micro_batch_size, max_iters, warmup_steps,
             eval_interval, save_interval, batch_size,
             gradient_accumulation_iters>>
setupVars == <<quantize, precision, fabric>>
mainVars == <<optimizer, T_max, last_epoch, lr, saved>>
trainVars == <<iter_num, step_count, is_accumulating, trace>>
batchVars == <<data, longest_seq_length, longest_seq_ix, ix, batch_x, batch_y>>
workerVars == <<w_pc, w_iter_num, w_step_count, w_is_accumulating, w_arrived,
                w_val_iters, w_save_iters>>
vars == <<cfgVars, pc, error, setupVars, mainVars, trainVars, batchVars,
          workerVars>>

----------------------------------------------------------------------------
(* Bounds of the model *)

MaxBatch == 3
MaxIters == 6
MaxWarmup == 2
MaxInterval == 2
MaxDevices == 2
MaxLen == 2
MaxData == 2
MaxMicro == 2

(* Program constants *)

\* learning_rate = 3e-4, in units of 1e-4
learning_rate == 3
\* the minimum field width of {iter_num:06d}
CkptWidth == 6
\* pad_right(x, pad_id=0) for the inputs, pad_id=-1 for the labels
PadInput == 0
PadTarget == -1

None == "None"
\* the None of an Optional[int] index
NoIndex == -1

----------------------------------------------------------------------------
(* Module load: custom.py:51-67 *)

\* gradient_accumulation_iters = batch_size // micro_batch_size
GradAccumIters(b, m) == b \div m

AssertDivisible(g) == g > 0 /\ batch_size % micro_batch_size = 0

\* assert gradient_accumulation_iters > 0
AssertPositive(g) == g > 0

LoadModule ==
    /\ pc = "import"
    /\ gradient_accumulation_iters' = GradAccumIters(batch_size, micro_batch_size)
    /\ IF AssertPositive(gradient_accumulation_iters')
       THEN pc' = "setup" /\ error' = None
       ELSE pc' = "failed" /\ error' = "AssertionError"
    /\ UNCHANGED <<devices, micro_batch_size, max_iters, warmup_steps,
                   eval_interval, save_interval, batch_size>>
    /\ UNCHANGED <<setupVars, mainVars, trainVars, batchVars, workerVars>>

----------------------------------------------------------------------------
(* setup(): custom.py:85-137 *)

QuantizeOptions ==
    {"bnb.nf4", "bnb.nf4-dq", "bnb.fp4", "bnb.fp4-dq", "bnb.int8-training"}

\* values the precision argument can take
PrecisionOptions ==
    {"16-true", "bf16-true", "32-true", "64-true", "16-mixed", "bf16-mixed"}
\* get_default_supported_precision(training=True) lies outside this file:
\* it may return any of them
DefaultPrecisions == PrecisionOptions

\* quantize.startswith("bnb.")
StartsWithBnb(q) == q \in QuantizeOptions

\* "mixed" in precision
IsMixed(p) == p \in {"16-mixed", "bf16-mixed"}

\* the keys of the dtype table
DtypeKeys == {"16-true", "bf16-true", "32-true"}
Dtype(p) ==
    CASE p = "16-true" -> "float16"
      [] p = "bf16-true" -> "bfloat16"
      [] p = "32-true" -> "float32"

\* quantize[4:]
QuantizeMode(q) ==
    CASE q = "bnb.nf4" -> "nf4"
      [] q = "bnb.nf4-dq" -> "nf4-dq"
      [] q = "bnb.fp4" -> "fp4"
      [] q = "bnb.fp4-dq" -> "fp4-dq"
      [] q = "bnb.int8-training" -> "int8-training"

NoFabric == [built |-> FALSE, devices |-> 0, strategy |-> None,
             precision |-> None, plugins |-> <<>>]

MultiDeviceIgnoringQuantize(q, d) == FALSE

\* if devices > 1: if quantize: raise NotImplementedError
MultiDeviceQuantized(q, d) == d > 1 /\ q # None

\* The outcome of setup for its arguments: the error raised, or None.
SetupError(q, p, d) ==
    IF q # None /\ StartsWithBnb(q) /\ IsMixed(p) THEN "ValueError"
    ELSE IF q # None /\ StartsWithBnb(q) /\ p \notin DtypeKeys THEN "KeyError"
    ELSE IF MultiDeviceQuantized(q, d) THEN "NotImplementedError"
    ELSE None

Setup ==
    /\ pc = "setup"
    /\ \E q \in QuantizeOptions \cup {None}, parg \in PrecisionOptions \cup {None} :
         \E p \in (IF parg = None THEN DefaultPrecisions ELSE {parg}) :
            LET err == SetupError(q, p, devices)
                quantized == q # None /\ StartsWithBnb(q)
            IN  /\ quantize' = q
                /\ precision' = p
                /\ error' = err
                /\ IF err # None
                   THEN /\ pc' = "failed"
                        /\ fabric' = NoFabric
                   ELSE /\ pc' = "main"
                        /\ fabric' =
                             [built |-> TRUE,
                              devices |-> devices,
                              strategy |-> IF devices > 1 THEN "FSDP" ELSE "auto",
                              precision |-> IF quantized THEN None ELSE p,
                              plugins |-> IF quantized
                                          THEN <<QuantizeMode(q), Dtype(p)>>
                                          ELSE <<>>]
    /\ UNCHANGED <<cfgVars, mainVars, trainVars, batchVars, workerVars>>

----------------------------------------------------------------------------
(* main(): custom.py:140-227 *)

\* the rate base * (num/den) * (1 + cos(pi * epoch / T_max)) / 2 in units of
\* 1e-4; epoch 0 is the cosine factor 1
Rate(num, den, epoch) == [num |-> num, den |-> den, epoch |-> epoch]

\* CosineAnnealingLR(optimizer, T_max=max_iters // batch_size)
SchedulerHorizon(mi, b) == mi \div b

\* the optimizer main() builds for the precision plugin in use
OptimizerFor(f) == IF f.plugins # <<>> THEN "PagedAdamW" ELSE "Lion"

FinalName == <<"lit_model_lora_finetuned.pth">>

\* main() up to the call of train(); check_valid_checkpoint_dir is fatal
Main ==
    /\ pc = "main"
    /\ \E valid \in BOOLEAN :
         IF valid
         THEN /\ pc' = "train"
              /\ error' = None
              /\ optimizer' = OptimizerFor(fabric)
              /\ T_max' = SchedulerHorizon(max_iters, batch_size)
              /\ last_epoch' = 0
              /\ lr' = Rate(learning_rate, 1, 0)
         ELSE /\ pc' = "failed"
              /\ error' = "SystemExit"
              /\ UNCHANGED <<optimizer, T_max, last_epoch, lr>>
    /\ UNCHANGED <<cfgVars, setupVars, saved, trainVars, batchVars, workerVars>>

----------------------------------------------------------------------------
(* train(): custom.py:230-323 *)

IsAccumulatingZeroBased(i, g) == (i - 1) % g # 0

\* is_accumulating = iter_num % gradient_accumulation_iters != 0
IsAccumulating(i, g) == i % g # 0

InWarmupStrict(s, w) == s < w

\* if step_count <= warmup_steps
InWarmup(s, w) == s <= w

\* lr = learning_rate * step_count / warmup_steps
WarmupLr(s, w) == Rate(learning_rate * s, w, 0)

SchedulerDueAtWarmupEnd(s, w) == s >= w

\* if step_count > warmup_steps: scheduler.step()
SchedulerDue(s, w) == s > w

\* if not is_accumulating and step_count % eval_interval == 0
EvalDue(acc, s) == ~acc /\ s % eval_interval = 0

SaveDueEveryInterval(acc, s) == s % save_interval = 0

\* if not is_accumulating and step_count % save_interval == 0
SaveDue(acc, s) == ~acc /\ s % save_interval = 0

DigitChars == <<"0", "1", "2", "3", "4", "5", "6", "7", "8", "9">>

RECURSIVE Digits(_)
\* the decimal digits of n >= 0, most significant first
Digits(n) == IF n < 10 THEN <<DigitChars[n + 1]>>
             ELSE Digits(n \div 10) \o <<DigitChars[(n % 10) + 1]>>

RECURSIVE ZeroPad(_, _)
ZeroPad(ds, width) == IF Len(ds) >= width THEN ds ELSE ZeroPad(<<"0">> \o ds, width)

\* out_dir / f"iter-{iter_num:06d}-ckpt.pth"
CheckpointName(i) ==
    <<"iter-">> \o ZeroPad(Digits(i), CkptWidth) \o <<"-ckpt.pth">>

NoLr == <<>>
NoPath == <<>>

LoopHasNextExclusive(i, mi) == i + 1 < mi

\* for iter_num in range(1, max_iters + 1), i being the last value taken
LoopHasNext(i, mi) == i < mi

\* train() before the loop
TrainEnter ==
    /\ pc = "train"
    /\ pc' = "loop"
    /\ iter_num' = 0
    /\ step_count' = 0
    /\ is_accumulating' = FALSE
    /\ trace' = <<>>
    /\ UNCHANGED <<cfgVars, error, setupVars, mainVars, batchVars, workerVars>>

\* the head of one iteration: warmup, get_batch, is_accumulating (265-278)
TrainBegin ==
    /\ pc = "loop"
    /\ LoopHasNext(iter_num, max_iters)
    /\ iter_num' = iter_num + 1
    /\ LET warm == InWarmup(step_count, warmup_steps)
           acc == IsAccumulating(iter_num', gradient_accumulation_iters)
       IN  /\ lr' = IF warm THEN WarmupLr(step_count, warmup_steps) ELSE lr
           /\ is_accumulating' = acc
           /\ trace' = Append(trace,
                  [s0 |-> step_count, warm |-> warm,
                   lr |-> IF warm THEN lr' ELSE NoLr,
                   acc |-> acc, opt |-> FALSE, sched |-> FALSE,
                   s1 |-> step_count, val |-> FALSE, save |-> NoPath])
    /\ pc' = "backward"
    /\ UNCHANGED <<cfgVars, error, setupVars, optimizer, T_max, last_epoch,
                   saved, step_count, batchVars, workerVars>>

\* where the loop body goes after the optimizer block and the logging
AfterStep(acc, s) ==
    IF EvalDue(acc, s) THEN "validate"
    ELSE IF SaveDue(acc, s) THEN "save"
    ELSE "loop"

\* forward, backward, optimizer and scheduler step, logging (279-309)
TrainStep ==
    /\ pc = "backward"
    /\ LET sync == ~is_accumulating
           sched == sync /\ SchedulerDue(step_count, warmup_steps)
       IN  /\ step_count' = IF sync THEN step_count + 1 ELSE step_count
           /\ last_epoch' = IF sched THEN last_epoch + 1 ELSE last_epoch
           /\ lr' = IF sched THEN Rate(learning_rate, 1, last_epoch') ELSE lr
           /\ trace' = [trace EXCEPT ![iter_num] =
                  [@ EXCEPT !.opt = sync, !.sched = sched, !.s1 = step_count']]
           /\ pc' = AfterStep(is_accumulating, step_count')
    /\ UNCHANGED <<cfgVars, error, setupVars, optimizer, T_max, saved,
                   iter_num, is_accumulating, batchVars, workerVars>>

\* validate() and the barrier after it (311-320)
Validate ==
    /\ pc = "validate"
    /\ trace' = [trace EXCEPT ![iter_num] = [@ EXCEPT !.val = TRUE]]
    /\ pc' = IF SaveDue(is_accumulating, step_count) THEN "save" ELSE "loop"
    /\ UNCHANGED <<cfgVars, error, setupVars, mainVars, iter_num, step_count,
                   is_accumulating, batchVars, workerVars>>

\* the periodic checkpoint (321-323)
Save ==
    /\ pc = "save"
    /\ saved' = Append(saved, CheckpointName(iter_num))
    /\ trace' = [trace EXCEPT ![iter_num] =
           [@ EXCEPT !.save = CheckpointName(iter_num)]]
    /\ pc' = "loop"
    /\ UNCHANGED <<cfgVars, error, setupVars, optimizer, T_max, last_epoch, lr,
                   iter_num, step_count, is_accumulating, batchVars, workerVars>>

\* the loop is exhausted: main() saves the final checkpoint (221-227)
MainFinish ==
    /\ pc = "loop"
    /\ ~LoopHasNext(iter_num, max_iters)
    /\ saved' = Append(saved, FinalName)
    /\ pc' = "done"
    /\ UNCHANGED <<cfgVars, error, setupVars, optimizer, T_max, last_epoch, lr,
                   trainVars, batchVars, workerVars>>

----------------------------------------------------------------------------
(* get_batch() and get_longest_seq_length(): custom.py:372-406 *)

\* Token ids of the examples; 0 is also the pad value of the inputs.
Tokens == {0, 5}

\* An example is a token sequence and its parallel label sequence: the
\* tokens, with the first position (the prompt) replaced by the ignore
\* value -1.
ExampleOf(ids) ==
    [input_ids |-> ids,
     labels |-> [j \in 1..Len(ids) |-> IF j = 1 THEN -1 ELSE ids[j]]]

Examples ==
    UNION {{ExampleOf(ids) : ids \in [1..n -> Tokens]} : n \in 1..MaxLen}

Datasets == UNION {[1..n -> Examples] : n \in 1..MaxData}

RECURSIVE MaxOf(_)
\* max(...) over a non-empty sequence of numbers
MaxOf(ns) ==
    IF Len(ns) = 1 THEN ns[1]
    ELSE LET m == MaxOf(SubSeq(ns, 1, Len(ns) - 1))
         IN  IF ns[Len(ns)] > m THEN ns[Len(ns)] ELSE m

\* lengths.index(longest_seq_length): the first position holding v, from 0
IndexOf(ns, v) == (CHOOSE k \in 1..Len(ns) :
                      ns[k] = v /\ \A j \in 1..(k - 1) : ns[j] # v) - 1

\* get_longest_seq_length(data)
GetLongestSeqLengthOf(d) ==
    LET lengths == [k \in 1..Len(d) |-> Len(d[k].input_ids)]
    IN  <<MaxOf(lengths), IndexOf(lengths, MaxOf(lengths))>>

\* torch.randint(len(data), (micro_batch_size,)): indices from 0
RandInt(n, m) == [1..m -> 0..(n - 1)]

\* x.type(torch.int64): the value of every element is kept
ToInt64(x) == [j \in 1..Len(x) |-> x[j]]

PadLeft(x, pad_id, max_len) == [j \in 1..(max_len - Len(x)) |-> pad_id] \o x

\* pad_right: torch.cat((x, torch.full((max_len - len(x),), pad_id)))
PadRight(x, pad_id, max_len) == x \o [j \in 1..(max_len - Len(x)) |-> pad_id]

\* the two tensors get_batch returns for the indices drawn
BatchOf(d, sample) ==
    LET input_ids == [r \in 1..Len(sample) |-> ToInt64(d[sample[r] + 1].input_ids)]
        labels == [r \in 1..Len(sample) |-> ToInt64(d[sample[r] + 1].labels)]
        max_len == MaxOf([r \in 1..Len(sample) |-> Len(input_ids[r])])
    IN  <<[r \in 1..Len(sample) |-> PadRight(input_ids[r], PadInput, max_len)],
          [r \in 1..Len(sample) |-> PadRight(labels[r], PadTarget, max_len)]>>

\* train() scans the training data once (251)
ScanData ==
    /\ pc = "scan"
    /\ longest_seq_length' = GetLongestSeqLengthOf(data)[1]
    /\ longest_seq_ix' = GetLongestSeqLengthOf(data)[2]
    /\ pc' = "sample"
    /\ UNCHANGED <<cfgVars, error, setupVars, mainVars, trainVars, data, ix,
                   batch_x, batch_y, workerVars>>

\* get_batch(fabric, data, longest_seq_ix): forced is the index given on the
\* first training iteration, None on every other call; the batch goes to
\* the caller
GetBatch ==
    /\ pc = "sample"
    /\ pc' = "batched"
    /\ \E sample \in RandInt(Len(data), micro_batch_size),
          forced \in {NoIndex, longest_seq_ix} :
         LET drawn == IF forced # NoIndex THEN [sample EXCEPT ![1] = forced]
                      ELSE sample
         IN  /\ ix' = drawn
             /\ batch_x' = BatchOf(data, drawn)[1]
             /\ batch_y' = BatchOf(data, drawn)[2]
    /\ UNCHANGED <<cfgVars, error, setupVars, mainVars, trainVars, data,
                   longest_seq_length, longest_seq_ix, workerVars>>

----------------------------------------------------------------------------
(* The single-process specification *)

NumWorkers == 2
Workers == 1..NumWorkers

IdleBatch ==
    /\ data = <<>>
    /\ longest_seq_length = 0
    /\ longest_seq_ix = NoIndex
    /\ ix = <<>>
    /\ batch_x = <<>>
    /\ batch_y = <<>>

IdleWorkers ==
    /\ w_pc = [w \in Workers |-> "idle"]
    /\ w_iter_num = [w \in Workers |-> 0]
    /\ w_step_count = [w \in Workers |-> 0]
    /\ w_is_accumulating = [w \in Workers |-> FALSE]
    /\ w_arrived = [w \in Workers |-> 0]
    /\ w_val_iters = [w \in Workers |-> {}]
    /\ w_save_iters = [w \in Workers |-> {}]

IdleProcess ==
    /\ error = None
    /\ quantize = None
    /\ precision = None
    /\ fabric = NoFabric
    /\ optimizer = None
    /\ T_max = 0
    /\ last_epoch = 0
    /\ lr = Rate(learning_rate, 1, 0)
    /\ saved = <<>>
    /\ iter_num = 0
    /\ step_count = 0
    /\ is_accumulating = FALSE
    /\ trace = <<>>

Init ==
    /\ devices \in 1..MaxDevices
    /\ micro_batch_size \in 1..MaxBatch
    /\ batch_size \in 1..MaxBatch
    /\ max_iters \in 0..MaxIters
    /\ warmup_steps \in 1..MaxWarmup
    /\ eval_interval \in 1..MaxInterval
    /\ save_interval \in 1..MaxInterval
    /\ gradient_accumulation_iters = 0
    /\ pc = "import"
    /\ IdleProcess
    /\ IdleBatch
    /\ IdleWorkers

Next ==
    \/ LoadModule
    \/ Setup
    \/ Main
    \/ TrainEnter
    \/ TrainBegin
    \/ TrainStep
    \/ Validate
    \/ Save
    \/ MainFinish

Spec == Init /\ [][Next]_vars

LiveSpec == Spec /\ WF_vars(Next)

----------------------------------------------------------------------------
(* Properties of the single process *)

\* iteration i has run its optimizer block
StepDone(i) == i < Len(trace) \/ (i = Len(trace) /\ pc # "backward")

\* iteration i has run to the end of the loop body
IterDone(i) == i < Len(trace) \/ (i = Len(trace) /\ pc \in {"loop", "done"})

\* C1: iteration i applies optimizer.step exactly when i is a multiple of the
\* accumulation factor g, the step counter moves only on those iterations,
\* and after iteration i it equals floor(i / g).
C1_SyncEveryGth ==
    \A i \in 1..Len(trace) :
        LET g == gradient_accumulation_iters
            r == trace[i]
        IN  /\ g >= 1
            /\ r.acc = (i % g # 0)
            /\ StepDone(i) =>
                 /\ r.opt = (i % g = 0)
                 /\ r.s1 = r.s0 + (IF i % g = 0 THEN 1 ELSE 0)
                 /\ r.s1 * g <= i
                 /\ i < (r.s1 + 1) * g
                 /\ i = Len(trace) => step_count = r.s1

\* g >= 2, a sync iteration has run and an accumulating iteration after it
C1_Witness ==
    /\ gradient_accumulation_iters >= 2
    /\ \E i \in 1..Len(trace) :
         /\ StepDone(i) /\ trace[i].opt
         /\ i < Len(trace) /\ StepDone(i + 1) /\ ~trace[i + 1].opt

\* C2: at the head of every iteration whose step counter s is <= warmup_steps
\* the rate is set to learning_rate * s / warmup_steps (0 at s = 0, half the
\* base rate at s = warmup_steps / 2, the base rate at s = warmup_steps,
\* non-decreasing in s); for s > warmup_steps the warmup code writes nothing.
C2_WarmupRate ==
    \A i \in 1..Len(trace) :
        LET r == trace[i]
        IN  /\ r.s0 <= warmup_steps =>
                 /\ r.warm
                 /\ r.lr.epoch = 0
                 /\ r.lr.den > 0
                 /\ r.lr.num * warmup_steps = learning_rate * r.s0 * r.lr.den
                 /\ r.s0 = 0 => r.lr.num = 0
                 /\ 2 * r.s0 = warmup_steps => 2 * r.lr.num = learning_rate * r.lr.den
                 /\ r.s0 = warmup_steps => r.lr.num = learning_rate * r.lr.den
                 /\ (i = Len(trace) /\ pc = "backward") => lr = r.lr
                 /\ \A j \in 1..i :
                      trace[j].lr.num * r.lr.den <= r.lr.num * trace[j].lr.den
            /\ r.s0 > warmup_steps => (~r.warm /\ r.lr = NoLr)

\* one run has passed half the warmup, its end, and an iteration after it
C2_Witness ==
    \E i, j, k \in 1..Len(trace) :
        /\ trace[i].s0 >= 1 /\ 2 * trace[i].s0 = warmup_steps /\ trace[i].warm
        /\ trace[j].s0 = warmup_steps /\ trace[j].warm
        /\ trace[k].s0 > warmup_steps /\ ~trace[k].warm

\* C4 as stated: whenever batch_size is not a positive multiple of
\* micro_batch_size, start-up fails fatally and no iteration runs.
C4_NonMultipleIsFatal ==
    (pc # "import" /\ batch_size % micro_batch_size # 0) =>
        (pc = "failed" /\ error = "AssertionError" /\ trace = <<>>)

\* C4 amended: the accumulation factor is floor(batch_size / micro_batch_size)
\* and start-up fails fatally exactly when that is not positive, that is when
\* batch_size < micro_batch_size; then nothing is launched and no iteration
\* runs. A batch_size >= micro_batch_size that is no multiple passes.
C4_FatalIffFactorNotPositive ==
    pc # "import" =>
        /\ gradient_accumulation_iters * micro_batch_size <= batch_size
        /\ batch_size < (gradient_accumulation_iters + 1) * micro_batch_size
        /\ (error = "AssertionError") <=> (batch_size < micro_batch_size)
        /\ error = "AssertionError" =>
             (pc = "failed" /\ ~fabric.built /\ trace = <<>>)
        /\ trace # <<>> => batch_size >= micro_batch_size

\* a batch_size that is no multiple of micro_batch_size is training
C4_Witness ==
    /\ batch_size % micro_batch_size # 0
    /\ batch_size > micro_batch_size
    /\ Len(trace) >= 1

\* setup() has returned or raised
SetupDone == pc \notin {"import", "setup"} /\ error # "AssertionError"
Quantized == quantize # None
MixedPrecision == precision \in {"16-mixed", "bf16-mixed"}
TruePrecision == precision \in {"16-true", "bf16-true", "32-true"}

\* C5 as stated: setup is fatal (ValueError resp. NotImplementedError) and
\* launches nothing when quantization meets mixed precision or devices > 1,
\* and launches the job in every other combination.
C5_FatalOnlyForMixedOrMulti ==
    SetupDone =>
        IF Quantized /\ (MixedPrecision \/ devices > 1)
        THEN /\ ~fabric.built
             /\ pc = "failed"
             /\ error \in {"ValueError", "NotImplementedError"}
        ELSE fabric.built

\* C5 amended: with quantization requested, setup raises ValueError for a
\* mixed precision, else KeyError for a precision outside 16-true, bf16-true
\* and 32-true, else NotImplementedError for devices > 1, and launches
\* nothing; in every other combination the job is launched.
C5_SetupOutcome ==
    SetupDone =>
        /\ (Quantized /\ MixedPrecision) =>
             (pc = "failed" /\ error = "ValueError" /\ ~fabric.built)
        /\ (Quantized /\ ~MixedPrecision /\ ~TruePrecision) =>
             (pc = "failed" /\ error = "KeyError" /\ ~fabric.built)
        /\ (Quantized /\ TruePrecision /\ devices > 1) =>
             (pc = "failed" /\ error = "NotImplementedError" /\ ~fabric.built)
        /\ (~Quantized \/ (TruePrecision /\ devices = 1)) =>
             /\ fabric.built
             /\ fabric.devices = devices
             /\ error \in {None, "SystemExit"}
        /\ ~fabric.built => (pc = "failed" /\ trace = <<>>)

\* quantization with a precision the dtype table lacks, on one device
C5_Witness ==
    /\ SetupDone /\ Quantized /\ devices = 1
    /\ ~MixedPrecision /\ ~TruePrecision
    /\ pc = "failed"

\* C6: the step counter never exceeds the iteration counter; the scheduler is
\* advanced only on a sync iteration whose step counter already exceeds
\* warmup_steps, so never in an iteration where the warmup code wrote the
\* rate, never during warmup and never on an accumulating iteration.
C6_SchedulerAfterWarmupOnSync ==
    /\ step_count <= iter_num
    /\ \A i \in 1..Len(trace) :
         LET r == trace[i]
         IN  /\ r.s0 <= i /\ r.s1 <= i
             /\ r.sched =>
                  /\ ~r.acc
                  /\ i % gradient_accumulation_iters = 0
                  /\ r.opt
                  /\ r.s0 > warmup_steps
                  /\ ~r.warm
    /\ last_epoch = Cardinality({i \in 1..Len(trace) : trace[i].sched})

\* the scheduler has been advanced
C6_Witness ==
    \E i \in 1..Len(trace) : trace[i].sched /\ i < Len(trace)

\* C7 as stated: the scheduler is advanced no more than T_max times in a run.
C7_SchedulerWithinHorizon ==
    last_epoch <= T_max

DigitValue(c) == CHOOSE d \in 0..9 : DigitChars[d + 1] = c

RECURSIVE ParseDigits(_)
ParseDigits(ds) ==
    IF ds = <<>> THEN 0
    ELSE 10 * ParseDigits(SubSeq(ds, 1, Len(ds) - 1)) + DigitValue(ds[Len(ds)])

\* the number a periodic checkpoint's name carries
NameIter(path) == ParseDigits(SubSeq(path, 2, Len(path) - 1))

\* C8: a periodic checkpoint is written at iteration i exactly when i is a
\* sync iteration and the step counter after its increment is a multiple of
\* save_interval; never on an accumulating iteration, never before the first
\* optimizer step; its name carries i, so no two share a path.
C8_PeriodicCheckpoint ==
    /\ \A i \in 1..Len(trace) :
         LET r == trace[i]
         IN  /\ IterDone(i) =>
                  ((r.save # NoPath) <=>
                     (i % gradient_accumulation_iters = 0
                        /\ r.s1 % save_interval = 0))
             /\ r.save # NoPath =>
                  /\ ~r.acc /\ r.opt /\ r.s1 >= 1
                  /\ Len(r.save) >= CkptWidth + 2
                  /\ NameIter(r.save) = i
                  /\ \E k \in 1..Len(saved) : saved[k] = r.save
    /\ \A j, k \in 1..Len(saved) : (j # k) => saved[j] # saved[k]

\* two periodic checkpoints with an accumulating iteration between them
C8_Witness ==
    \E i, j \in 1..Len(trace) :
        /\ i + 1 < j
        /\ trace[i].save # NoPath /\ trace[j].save # NoPath
        /\ trace[i + 1].acc /\ IterDone(i + 1) /\ trace[i + 1].save = NoPath

TrainPcs == {"train", "loop", "backward", "validate", "save"}

\* what is left of the run, counted in steps
Remaining ==
    IF pc = "train" THEN 4 * max_iters + 6
    ELSE IF pc \in TrainPcs
    THEN 4 * (max_iters - iter_num)
           + (CASE pc = "loop" -> 0 [] pc = "backward" -> 3
                [] pc = "validate" -> 2 [] pc = "save" -> 1) + 1
    ELSE 0

C10_Safety ==
    /\ pc \in TrainPcs => (iter_num <= max_iters /\ FinalName \notin
                              {saved[k] : k \in 1..Len(saved)})
    /\ pc \in TrainPcs \ {"train"} => Len(trace) = iter_num
    /\ pc = "done" =>
         /\ iter_num = max_iters
         /\ Len(trace) = max_iters
         /\ \A i \in 1..max_iters : trace[i].opt = ~trace[i].acc
         /\ Len(saved) >= 1
         /\ saved[Len(saved)] = FinalName
         /\ Cardinality({k \in 1..Len(saved) : saved[k] = FinalName}) = 1

\* every step of the loop brings the end of the run nearer
C10_Progress ==
    pc \in TrainPcs =>
        /\ Remaining' < Remaining
        /\ pc' \in TrainPcs \cup {"done"}
        /\ iter_num' \in {iter_num, iter_num + 1}
        /\ pc' = "done" => iter_num = max_iters

\* C10: once start-up has passed, the loop runs iterations 1..max_iters, each
\* once, every step brings the end nearer and the run ends; the final
\* checkpoint is written only after the last iteration, once, as
\* lit_model_lora_finetuned.pth.
C10_RunsToTheEnd ==
    /\ []C10_Safety
    /\ [][C10_Progress]_vars
    /\ (pc = "train") ~> (pc = "done")

\* a run of several iterations is done, with a periodic checkpoint before
\* the final one
C10_Witness ==
    /\ pc = "done"
    /\ max_iters >= 2
    /\ Len(saved) >= 2

----------------------------------------------------------------------------
(* The batch sampler on its own *)

InitBatch ==
    /\ devices = 1
    /\ micro_batch_size \in 1..MaxMicro
    /\ batch_size = micro_batch_size
    /\ max_iters = 1
    /\ warmup_steps = 1
    /\ eval_interval = 1
    /\ save_interval = 1
    /\ gradient_accumulation_iters = 1
    /\ pc = "scan"
    /\ IdleProcess
    /\ data \in Datasets
    /\ longest_seq_length = 0
    /\ longest_seq_ix = NoIndex
    /\ ix = <<>>
    /\ batch_x = <<>>
    /\ batch_y = <<>>
    /\ IdleWorkers

NextBatch ==
    \/ ScanData
    \/ GetBatch

SpecBatch == InitBatch /\ [][NextBatch]_vars

\* the length of the example drawn for row r
DrawnLen(r) == Len(data[ix[r] + 1].input_ids)

\* C3: get_batch returns inputs and targets of the same shape
\* [micro_batch_size, L], L the greatest length among the drawn examples;
\* each row starts with the drawn example's own sequence, unchanged, and
\* holds the pad value (0 in the inputs, -1 in the targets) after it.
C3_BatchShapeAndPadding ==
    batch_x # <<>> =>
        /\ Len(batch_x) = micro_batch_size
        /\ Len(batch_y) = micro_batch_size
        /\ Len(ix) = micro_batch_size
        /\ \E r \in 1..micro_batch_size : Len(batch_x[r]) = DrawnLen(r)
        /\ \A r \in 1..micro_batch_size :
             LET ex == data[ix[r] + 1]
                 n == Len(ex.input_ids)
             IN  /\ Len(batch_x[r]) >= n
                 /\ Len(batch_x[r]) = Len(batch_x[1])
                 /\ Len(batch_y[r]) = Len(batch_x[1])
                 /\ \A j \in 1..n :
                      /\ batch_x[r][j] = ex.input_ids[j]
                      /\ batch_y[r][j] = ex.labels[j]
                 /\ \A j \in (n + 1)..Len(batch_x[r]) :
                      /\ batch_x[r][j] = 0
                      /\ batch_y[r][j] = -1

\* a batch whose first row is the forced longest example and whose second
\* row is a shorter example ending in a token other than the pad value
C3_Witness ==
    /\ batch_x # <<>>
    /\ micro_batch_size >= 2
    /\ ix[1] = longest_seq_ix
    /\ DrawnLen(2) < DrawnLen(1)
    /\ data[ix[2] + 1].input_ids[DrawnLen(2)] # 0
    /\ batch_x[2][Len(batch_x[2])] = 0

----------------------------------------------------------------------------
(* Several ranks running train(): custom.py:265-323 *)

\* rank v has entered the backward pass of iteration i or is beyond it
EnteredBackward(v, i) ==
    \/ w_iter_num[v] > i
    \/ w_iter_num[v] = i /\ w_pc[v] # "backward"

\* fabric.backward outside no_backward_sync reduces the gradients over all
\* ranks: it returns once every rank has entered the same backward pass
GradSyncDone(w) ==
    w_is_accumulating[w] \/ \A v \in Workers : EnteredBackward(v, w_iter_num[w])

BarrierOpenAlways(w) == TRUE

\* fabric.barrier() returns once every rank has called it as often as w
BarrierOpen(w) == \A v \in Workers : w_arrived[v] >= w_arrived[w]

\* the head of one iteration (265-278)
W_Begin(w) ==
    /\ w_pc[w] = "loop"
    /\ LoopHasNext(w_iter_num[w], max_iters)
    /\ w_iter_num' = [w_iter_num EXCEPT ![w] = @ + 1]
    /\ w_is_accumulating' = [w_is_accumulating EXCEPT ![w] =
           IsAccumulating(w_iter_num'[w], gradient_accumulation_iters)]
    /\ w_pc' = [w_pc EXCEPT ![w] = "backward"]
    /\ UNCHANGED <<w_step_count, w_arrived, w_val_iters, w_save_iters>>
    /\ UNCHANGED <<cfgVars, pc, error, setupVars, mainVars, trainVars, batchVars>>

\* forward and the start of fabric.backward (279-284)
W_Backward(w) ==
    /\ w_pc[w] = "backward"
    /\ w_pc' = [w_pc EXCEPT ![w] = "sync"]
    /\ UNCHANGED <<w_iter_num, w_is_accumulating, w_step_count, w_arrived,
                   w_val_iters, w_save_iters>>
    /\ UNCHANGED <<cfgVars, pc, error, setupVars, mainVars, trainVars, batchVars>>

\* the end of fabric.backward, the optimizer block and the logging (284-309)
W_Step(w) ==
    /\ w_pc[w] = "sync"
    /\ GradSyncDone(w)
    /\ w_step_count' = [w_step_count EXCEPT ![w] =
           IF w_is_accumulating[w] THEN @ ELSE @ + 1]
    /\ w_pc' = [w_pc EXCEPT ![w] =
           AfterStep(w_is_accumulating[w], w_step_count'[w])]
    /\ UNCHANGED <<w_iter_num, w_is_accumulating, w_arrived, w_val_iters,
                   w_save_iters>>
    /\ UNCHANGED <<cfgVars, pc, error, setupVars, mainVars, trainVars, batchVars>>

\* validate() up to the call of fabric.barrier() (311-320)
W_Validate(w) ==
    /\ w_pc[w] = "validate"
    /\ w_val_iters' = [w_val_iters EXCEPT ![w] = @ \cup {w_iter_num[w]}]
    /\ w_arrived' = [w_arrived EXCEPT ![w] = @ + 1]
    /\ w_pc' = [w_pc EXCEPT ![w] = "barrier"]
    /\ UNCHANGED <<w_iter_num, w_is_accumulating, w_step_count, w_save_iters>>
    /\ UNCHANGED <<cfgVars, pc, error, setupVars, mainVars, trainVars, batchVars>>

\* fabric.barrier() returns (320)
W_Barrier(w) ==
    /\ w_pc[w] = "barrier"
    /\ BarrierOpen(w)
    /\ w_pc' = [w_pc EXCEPT ![w] =
           IF SaveDue(w_is_accumulating[w], w_step_count[w]) THEN "save"
           ELSE "loop"]
    /\ UNCHANGED <<w_iter_num, w_is_accumulating, w_step_count, w_arrived,
                   w_val_iters, w_save_iters>>
    /\ UNCHANGED <<cfgVars, pc, error, setupVars, mainVars, trainVars, batchVars>>

\* the periodic checkpoint (321-323)
W_Save(w) ==
    /\ w_pc[w] = "save"
    /\ w_save_iters' = [w_save_iters EXCEPT ![w] = @ \cup {w_iter_num[w]}]
    /\ w_pc' = [w_pc EXCEPT ![w] = "loop"]
    /\ UNCHANGED <<w_iter_num, w_is_accumulating, w_step_count, w_arrived,
                   w_val_iters>>
    /\ UNCHANGED <<cfgVars, pc, error, setupVars, mainVars, trainVars, batchVars>>

\* the loop is exhausted and train() returns
W_Finish(w) ==
    /\ w_pc[w] = "loop"
    /\ ~LoopHasNext(w_iter_num[w], max_iters)
    /\ w_pc' = [w_pc EXCEPT ![w] = "done"]
    /\ UNCHANGED <<w_iter_num, w_is_accumulating, w_step_count, w_arrived,
                   w_val_iters, w_save_iters>>
    /\ UNCHANGED <<cfgVars, pc, error, setupVars, mainVars, trainVars, batchVars>>

WorkerNext(w) ==
    \/ W_Begin(w)
    \/ W_Backward(w)
    \/ W_Step(w)
    \/ W_Validate(w)
    \/ W_Barrier(w)
    \/ W_Save(w)
    \/ W_Finish(w)

InitWorkers ==
    /\ devices = NumWorkers
    /\ micro_batch_size = 1
    /\ batch_size \in 1..MaxBatch
    /\ max_iters \in 1..MaxIters
    /\ warmup_steps = 1
    /\ eval_interval \in 1..MaxInterval
    /\ save_interval \in 1..MaxInterval
    /\ gradient_accumulation_iters = GradAccumIters(batch_size, micro_batch_size)
    /\ pc = "workers"
    /\ IdleProcess
    /\ IdleBatch
    /\ w_pc = [w \in Workers |-> "loop"]
    /\ w_iter_num = [w \in Workers |-> 0]
    /\ w_step_count = [w \in Workers |-> 0]
    /\ w_is_accumulating = [w \in Workers |-> FALSE]
    /\ w_arrived = [w \in Workers |-> 0]
    /\ w_val_iters = [w \in Workers |-> {}]
    /\ w_save_iters = [w \in Workers |-> {}]

NextWorkers ==
    \/ \E w \in Workers : W_Begin(w)
    \/ \E w \in Workers : W_Backward(w)
    \/ \E w \in Workers : W_Step(w)
    \/ \E w \in Workers : W_Validate(w)
    \/ \E w \in Workers : W_Barrier(w)
    \/ \E w \in Workers : W_Save(w)
    \/ \E w \in Workers : W_Finish(w)

\* every rank is a process of its own that keeps running
SpecWorkers ==
    /\ InitWorkers
    /\ [][NextWorkers]_vars
    /\ \A w \in Workers : WF_vars(WorkerNext(w))

\* iteration i is one at which validation is due
EvalIter(i) ==
    /\ i % gradient_accumulation_iters = 0
    /\ (i \div gradient_accumulation_iters) % eval_interval = 0

\* rank w is past the point of iteration i where validation runs
PastValidate(w, i) ==
    \/ w_iter_num[w] > i
    \/ w_iter_num[w] = i /\ w_pc[w] \in {"barrier", "save", "loop", "done"}

\* rank w is past the barrier of iteration i
PastBarrier(w, i) ==
    \/ w_iter_num[w] > i
    \/ w_iter_num[w] = i /\ w_pc[w] \in {"save", "loop", "done"}

C9_Safety ==
    \A w \in Workers :
        /\ w_val_iters[w] = {i \in 1..w_iter_num[w] : EvalIter(i) /\ PastValidate(w, i)}
        /\ w_arrived[w] = Cardinality(w_val_iters[w])
        /\ \A i \in 1..w_iter_num[w] :
             (EvalIter(i) /\ (PastBarrier(w, i) \/ i \in w_save_iters[w])) =>
                 \A v \in Workers : i \in w_val_iters[v]

\* C9: every rank validates at the same iterations, the sync iterations whose
\* step counter is a multiple of eval_interval; each validation is followed
\* by the barrier; no rank saves that iteration's checkpoint or starts the
\* next iteration before every rank has finished that validation; and no
\* rank waits at the barrier forever.
C9_ValidationBarrier ==
    /\ []C9_Safety
    /\ \A w \in Workers : (w_pc[w] = "barrier") ~> (w_pc[w] # "barrier")

\* one rank waits at the barrier while another is still validating
C9_Witness ==
    \E w, v \in Workers :
        /\ w_pc[w] = "barrier"
        /\ w_pc[v] = "validate"
        /\ w_iter_num[v] = w_iter_num[w]
        /\ ~BarrierOpen(w)

====
